---- MODULE Spec2Model ----
(***************************************************************************)
(* State-machine model of SearchModel (filetree-search-qt/search-model.cc):*)
(* the hierarchical index, its two population routines, the visibility     *)
(* pass, the row adapter (index / parent / rowCount) and the drag export.  *)
(*                                                                         *)
(* Strings are sequences of one-character strings.  A null String is the   *)
(* value Null.  An Item pointer is the position of the Item in the arena   *)
(* `items` (creation order); nullptr is 0.                                 *)
(***************************************************************************)
EXTENDS Integers, Sequences, FiniteSets, TLC

VARIABLES library,        \* the host: the playlist and base path it hands over
          items,          \* every Item owned by m_database, by creation order
          m_playlist,     \* the Playlist handle: the filename of each entry
          m_root_items,   \* Index<Item *> m_root_items
          m_hidden_items, \* int m_hidden_items
          call,           \* the most recent call and its arguments
          ret             \* what the most recent call returned / told the playlist

vars == <<library, items, m_playlist, m_root_items, m_hidden_items, call, ret>>

----------------------------------------------------------------------------
(* Bounds of the model. *)

MaxEntries == 2     \* entries of a playlist handed to create_database
MaxTerms == 2       \* search terms of one do_search
MaxSel == 2         \* indexes of one mimeData selection
MaxTagEntries == 2  \* entries of the playlist where add_to_database is exercised
MaxTagCalls == 2    \* entries the top-level match lists may hold before add_to_database stops

----------------------------------------------------------------------------
(* enum class SearchField *)

Genre == 0
Artist == 1
Album == 2
HiddenAlbum == 3
Title == 4

----------------------------------------------------------------------------
(* Characters and strings. *)

Null == <<"<null>">>

Chars == {"f", "i", "l", "e", ":", "/", "%", "2", "F", "m", "a", "b", "A", "x"}

Code(c) ==
    CASE c = "%" -> 37 [] c = "/" -> 47 [] c = "2" -> 50 [] c = ":" -> 58
      [] c = "A" -> 65 [] c = "F" -> 70 [] c = "a" -> 97 [] c = "b" -> 98
      [] c = "e" -> 101 [] c = "f" -> 102 [] c = "i" -> 105 [] c = "l" -> 108
      [] c = "m" -> 109 [] c = "x" -> 120

Chr(n) == CHOOSE c \in Chars : Code(c) = n

IsUpper(c) == Code(c) >= 65 /\ Code(c) <= 90

ToLower(c) == IF IsUpper(c) THEN Chr(Code(c) + 32) ELSE c

str_tolower_utf8(s) == [i \in 1..Len(s) |-> ToLower(s[i])]

(* strstr (haystack, needle) as a truth value *)
strstr(hay, needle) ==
    \E i \in 0..(Len(hay) - Len(needle)) :
        SubSeq(hay, i + 1, i + Len(needle)) = needle

(* QString::startsWith, QString::endsWith, QString::mid (pos), QString::chop *)
startsWith(s, p) == Len(p) <= Len(s) /\ SubSeq(s, 1, Len(p)) = p

endsWith(s, p) == Len(p) <= Len(s) /\ SubSeq(s, Len(s) - Len(p) + 1, Len(s)) = p

mid(s, pos) == SubSeq(s, pos + 1, Len(s))

chop(s, n) == SubSeq(s, 1, Len(s) - n)

(* QUrl::fromPercentEncoding: %XY with two hexadecimal digits is one byte *)
IsHex(c) == c \in {"2", "F", "A", "a", "b", "e", "f"}

HexVal(c) ==
    CASE c = "2" -> 2 [] c = "A" -> 10 [] c = "a" -> 10 [] c = "b" -> 11
      [] c = "e" -> 14 [] c = "F" -> 15 [] c = "f" -> 15

RECURSIVE fromPercentEncoding(_)
fromPercentEncoding(s) ==
    IF s = <<>> THEN <<>>
    ELSE IF s[1] = "%" /\ Len(s) >= 3 /\ IsHex(s[2]) /\ IsHex(s[3])
         THEN <<Chr(16 * HexVal(s[2]) + HexVal(s[3]))>>
                  \o fromPercentEncoding(SubSeq(s, 4, Len(s)))
         ELSE <<s[1]>> \o fromPercentEncoding(Tail(s))

(* QString::split ("/", Qt::SkipEmptyParts) *)
RECURSIVE SplitFrom(_, _, _)
SplitFrom(s, i, cur) ==
    IF i > Len(s) THEN (IF cur = <<>> THEN <<>> ELSE <<cur>>)
    ELSE IF s[i] = "/"
         THEN (IF cur = <<>> THEN <<>> ELSE <<cur>>) \o SplitFrom(s, i + 1, <<>>)
         ELSE SplitFrom(s, i + 1, Append(cur, s[i]))

split(s) == SplitFrom(s, 1, <<>>)

FileScheme == <<"f", "i", "l", "e", ":", "/", "/">>

(* create_database: base_path (a URI, or null) to base_dir *)
BaseDir(base_path) ==
    IF base_path = Null THEN <<>>
    ELSE LET d1 == fromPercentEncoding(base_path)
             d2 == IF startsWith(d1, FileScheme) THEN mid(d1, 7) ELSE d1
         IN  IF endsWith(d2, <<"/">>) THEN chop(d2, 1) ELSE d2

(* create_database: the path segments of one entry's filename *)
Parts(filename, base_dir) ==
    LET p1 == fromPercentEncoding(filename)
        p2 == IF startsWith(p1, FileScheme) THEN mid(p1, 7) ELSE p1
        p3 == IF base_dir # <<>> /\ startsWith(p2, base_dir \o <<"/">>)
              THEN mid(p2, Len(base_dir) + 1) ELSE p2
    IN  split(p3)

----------------------------------------------------------------------------
(* The index: struct Item, struct Key, SimpleHash<Key, Item>. *)

Item(field, name, parent) ==
    [field |-> field, name |-> name, folded |-> str_tolower_utf8(name),
     parent |-> parent, matches |-> <<>>, m_search_visible |-> TRUE]

Key(field, name) == [field |-> field, name |-> name]

(* Key::operator== *)
KeyEq(a, b) == a.field = b.field /\ a.name = b.name

(* The Items of one SimpleHash: the children of `parent` (0: m_database). *)
Children(its, parent) == {i \in 1..Len(its) : its[i].parent = parent}

n_items(its, parent) == Cardinality(Children(its, parent))

(* SimpleHash::lookup: the Item stored under an equal Key, or nullptr *)
lookup_none(its, parent, key) == 0

lookup(its, parent, key) ==
    LET hit == {i \in Children(its, parent) :
                    KeyEq(Key(its[i].field, its[i].name), key)}
    IN  IF hit = {} THEN 0 ELSE CHOOSE i \in hit : \A j \in hit : i <= j

(* create_database, line 403: last component = file, others = folder *)
PartField(i, n) == IF i = n THEN Title ELSE Genre

(* create_database, line 412: only the file node receives the entry *)
AppendsMatch_every_level(field) == TRUE

AppendsMatch(field) == field = Title

(* create_database, lines 395-417: walk / create the chain of one entry.
   parts[i] here is parts[i - 1] of the code. *)
RECURSIVE InsertPath(_, _, _, _, _)
InsertPath(its, parts, i, parent, e) ==
    IF i > Len(parts) THEN its
    ELSE LET field == PartField(i, Len(parts))
             key == Key(field, parts[i])
             found == lookup(its, parent, key)
             its1 == IF found = 0
                     THEN Append(its, Item(field, parts[i], parent)) ELSE its
             item == IF found = 0 THEN Len(its1) ELSE found
             its2 == IF AppendsMatch(field)
                     THEN [its1 EXCEPT ![item].matches = Append(@, e)] ELSE its1
         IN  InsertPath(its2, parts, i + 1, item, e)

(* create_database, lines 373-420: the loop over the entries e, e + 1, ... *)
RECURSIVE PopulateFrom(_, _, _, _)
PopulateFrom(its, playlist, base_dir, e) ==
    IF e >= Len(playlist) THEN its
    ELSE IF playlist[e + 1] = Null
         THEN PopulateFrom(its, playlist, base_dir, e + 1)
         ELSE PopulateFrom(
                  InsertPath(its, Parts(playlist[e + 1], base_dir), 1, 0, e),
                  playlist, base_dir, e + 1)

(* add_to_database, line 337: if (! key.name) continue; *)
key_skipped(key) == key.name = Null

(* add_to_database, line 344: item->matches.append (entry) *)
append_match_once(matches, entry) ==
    IF \E i \in 1..Len(matches) : matches[i] = entry THEN matches
    ELSE Append(matches, entry)

append_match(matches, entry) == Append(matches, entry)

(* add_to_database, lines 332-348 *)
RECURSIVE AddKeys(_, _, _, _, _)
AddKeys(its, keys, k, parent, entry) ==
    IF k > Len(keys) THEN its
    ELSE IF key_skipped(keys[k])
         THEN AddKeys(its, keys, k + 1, parent, entry)
         ELSE LET found == lookup(its, parent, keys[k])
                  its1 == IF found = 0
                          THEN Append(its, Item(keys[k].field, keys[k].name, parent))
                          ELSE its
                  item == IF found = 0 THEN Len(its1) ELSE found
                  its2 == [its1 EXCEPT ![item].matches = append_match(@, entry)]
              IN  AddKeys(its2, keys, k + 1, item, entry)

----------------------------------------------------------------------------
(* Ordering: str_compare, the sort lambdas, Index::sort, SimpleHash::iterate *)

(* str_compare: byte-wise, ASCII letters compared without case (the names of
   this model hold no digits, so its numeric branch is never entered) *)
RECURSIVE StrCompareFrom(_, _, _)
StrCompareFrom(a, b, i) ==
    IF i > Len(a) /\ i > Len(b) THEN 0
    ELSE LET ca == IF i > Len(a) THEN 0 ELSE Code(ToLower(a[i]))
             cb == IF i > Len(b) THEN 0 ELSE Code(ToLower(b[i]))
         IN  IF ca > cb THEN 1
             ELSE IF ca < cb THEN -1
             ELSE StrCompareFrom(a, b, i + 1)

str_compare(a, b) == StrCompareFrom(a, b, 1)

(* the comparison lambda of index / collect_files / build_root_items:
   return str_compare (a->name, b->name) > 0, a bool used as the int result *)
name_compare(its, a, b) ==
    IF str_compare(its[a].name, its[b].name) > 0 THEN 1 ELSE 0

(* item_compare, lines 454-469 (not called by any routine of the file) *)
RECURSIVE item_compare(_, _, _)
item_compare(its, a, b) ==
    IF its[a].field < its[b].field THEN -1
    ELSE IF its[a].field > its[b].field THEN 1
    ELSE LET val == str_compare(its[a].name, its[b].name)
         IN  IF val # 0 THEN val
             ELSE IF its[a].parent # 0
                  THEN (IF its[b].parent # 0
                        THEN item_compare(its, its[a].parent, its[b].parent) ELSE 1)
                  ELSE (IF its[b].parent # 0 THEN -1 ELSE 0)

(* Index::sort with the lambda above: a stable merge sort that takes the left
   element whenever compare (left, right) <= 0 *)
RECURSIVE Merge(_, _, _)
Merge(its, l, r) ==
    IF l = <<>> THEN r
    ELSE IF r = <<>> THEN l
    ELSE IF name_compare(its, l[1], r[1]) <= 0
         THEN <<l[1]>> \o Merge(its, Tail(l), r)
         ELSE <<r[1]>> \o Merge(its, l, Tail(r))

RECURSIVE sort(_, _)
sort(its, s) ==
    IF Len(s) <= 1 THEN s
    ELSE LET n1 == Len(s) \div 2
         IN  Merge(its, sort(its, SubSeq(s, 1, n1)),
                        sort(its, SubSeq(s, n1 + 1, Len(s))))

(* SimpleHash::iterate visits the Items of a table in bucket order, which the
   caller does not control: `rev` chooses between the two directions. *)
RECURSIVE Ascending(_)
Ascending(S) ==
    IF S = {} THEN <<>>
    ELSE LET m == CHOOSE x \in S : \A y \in S : x <= y
         IN  <<m>> \o Ascending(S \ {m})

Reverse(s) == [i \in 1..Len(s) |-> s[Len(s) + 1 - i]]

iterate(its, parent, rev) ==
    IF rev THEN Reverse(Ascending(Children(its, parent)))
    ELSE Ascending(Children(its, parent))

Range(s) == {s[i] : i \in 1..Len(s)}

(* build_root_items, lines 309-320 *)
build_root_items(its, rev) == sort(its, iterate(its, 0, rev))

----------------------------------------------------------------------------
(* do_search: the visibility pass. *)

(* lines 481-488: the item matches when its folded name holds some term *)
item_matches(folded, terms) ==
    \E t \in 1..Len(terms) : strstr(folded, terms[t])

(* line 497 *)
search_visible_own_only(own, child, nterms) == own \/ nterms = 0

search_visible(own, child, nterms) == own \/ child \/ nterms = 0

(* mark_matches, lines 476-499: the value it returns for `item`, which is the
   flag it stores in the item *)
RECURSIVE mark_matches(_, _, _)
mark_matches(its, terms, item) ==
    LET own == item_matches(its[item].folded, terms)
        child == \E c \in Children(its, item) : mark_matches(its, terms, c)
    IN  search_visible(own, child, Len(terms))

----------------------------------------------------------------------------
(* The row adapter: QModelIndex, item_at_index, rowCount, index, parent. *)

InvalidIndex == [valid |-> FALSE, row |-> -1, ptr |-> 0]

createIndex(row, ptr) == [valid |-> TRUE, row |-> row, ptr |-> ptr]

item_at_index(idx) == IF idx.valid THEN idx.ptr ELSE 0

VisibleChildren(its, parent) ==
    {c \in Children(its, parent) : its[c].m_search_visible}

rowCount(its, roots, parent) ==
    IF ~parent.valid THEN Len(roots)
    ELSE IF item_at_index(parent) = 0 THEN 0
    ELSE Cardinality(VisibleChildren(its, item_at_index(parent)))

hasChildren(its, roots, parent) ==
    IF ~parent.valid THEN Len(roots) > 0
    ELSE IF item_at_index(parent) = 0 THEN FALSE
    ELSE VisibleChildren(its, item_at_index(parent)) # {}

(* index (row, column, parent), lines 174-205 *)
index(its, roots, row, column, parent, rev) ==
    IF column # 0 THEN InvalidIndex
    ELSE IF ~parent.valid
         THEN (IF row < 0 \/ row >= Len(roots) THEN InvalidIndex
               ELSE createIndex(row, roots[row + 1]))
    ELSE IF item_at_index(parent) = 0 THEN InvalidIndex
    ELSE LET IsVisible(c) == its[c].m_search_visible
             children == sort(its, SelectSeq(iterate(its, item_at_index(parent), rev),
                                             IsVisible))
         IN  IF row < 0 \/ row >= Len(children) THEN InvalidIndex
             ELSE createIndex(row, children[row + 1])

(* parent (index), lines 141-172 *)
parent_of(its, roots, idx) ==
    IF ~idx.valid THEN InvalidIndex
    ELSE IF idx.ptr = 0 \/ its[idx.ptr].parent = 0 THEN InvalidIndex
    ELSE LET par == its[idx.ptr].parent
         IN  IF its[par].parent = 0
             THEN (IF \E r \in 1..Len(roots) : roots[r] = par
                   THEN createIndex(
                            (CHOOSE r \in 1..Len(roots) :
                                 /\ roots[r] = par
                                 /\ \A q \in 1..(r - 1) : roots[q] # par) - 1,
                            par)
                   ELSE InvalidIndex)
             ELSE LET grandparent == its[par].parent
                      \* the lambda returns for the parent and counts every other child
                      row == Cardinality({c \in Children(its, grandparent) : c # par})
                  IN  createIndex(row, par)

----------------------------------------------------------------------------
(* mimeData: the drag export. *)

entry_filename(playlist, entry) == playlist[entry + 1]

(* lines 252 and 280: if (!seen_entries.contains (entry)) *)
not_seen_always(seen, entry) == TRUE

not_seen(seen, entry) == entry \notin seen

NoExport == [urls |-> <<>>, seen |-> {}, selected |-> <<>>]

(* lines 250-258 and 278-286: the loop over one item's matches *)
RECURSIVE AddEntries(_, _, _, _)
AddEntries(playlist, matches, k, acc) ==
    IF k > Len(matches) THEN acc
    ELSE LET entry == matches[k]
         IN  IF not_seen(acc.seen, entry)
             THEN AddEntries(playlist, matches, k + 1,
                      [urls |-> Append(acc.urls, entry_filename(playlist, entry)),
                       seen |-> acc.seen \cup {entry},
                       selected |-> Append(acc.selected, entry)])
             ELSE AddEntries(playlist, matches, k + 1, acc)

(* collect_files, lines 233-266: CollectChildren is its loop over the sorted
   children, from position k on *)
RECURSIVE collect_files(_, _, _, _, _)
RECURSIVE CollectChildren(_, _, _, _, _, _)
collect_files(its, playlist, folder, acc, rev) ==
    CollectChildren(its, playlist, sort(its, iterate(its, folder, rev)), 1, acc, rev)

CollectChildren(its, playlist, children, k, acc, rev) ==
    IF k > Len(children) THEN acc
    ELSE LET child == children[k]
             acc1 == IF its[child].field = Title /\ Len(its[child].matches) > 0
                     THEN AddEntries(playlist, its[child].matches, 1, acc)
                     ELSE IF n_items(its, child) > 0
                          THEN collect_files(its, playlist, child, acc, rev)
                          ELSE acc
         IN  CollectChildren(its, playlist, children, k + 1, acc1, rev)

(* lines 268-293: the loop over the selected indexes, from position k on;
   indexes[k] is the internalPointer of the index, 0 for an invalid index *)
RECURSIVE ExportFrom(_, _, _, _, _, _)
ExportFrom(its, playlist, indexes, k, acc, rev) ==
    IF k > Len(indexes) THEN acc
    ELSE LET item == indexes[k]
             acc1 == IF item = 0 THEN acc
                     ELSE IF its[item].field = Title /\ Len(its[item].matches) > 0
                          THEN AddEntries(playlist, its[item].matches, 1, acc)
                          ELSE IF n_items(its, item) > 0
                               THEN collect_files(its, playlist, item, acc, rev)
                               ELSE acc
         IN  ExportFrom(its, playlist, indexes, k + 1, acc1, rev)

Export(its, playlist, indexes, rev) ==
    ExportFrom(its, playlist, indexes, 1, NoExport, rev)

----------------------------------------------------------------------------
(* Inputs. *)

SeqsUpTo(S, n) == UNION {[1..k -> S] : k \in 0..n}

Filenames ==
    { FileScheme \o <<"/", "m", "/", "a">>,                       \* file:///m/a
      FileScheme \o <<"/", "m", "/", "b">>,                       \* file:///m/b
      FileScheme \o <<"/", "m", "/", "b", "/", "a">>,             \* file:///m/b/a
      FileScheme \o <<"/", "m", "/", "b", "%", "2", "F", "A">>,   \* file:///m/b%2FA
      <<"/", "m", "/", "/", "a", "/", "b">>,                      \* /m//a/b
      Null }                                                      \* no filename

BasePaths == { Null, FileScheme \o <<"/", "m", "/">> }            \* file:///m/

TermSet == { <<"a">>, <<"b">> }

KeyChains ==
    { <<Key(Genre, <<"b">>), Key(Artist, <<"x">>), Key(Title, <<"a">>)>>,
      <<Key(Genre, <<"b">>), Key(Artist, <<"m">>), Key(Title, <<"b">>)>>,
      <<Key(Genre, <<"b">>), Key(Artist, Null), Key(Title, <<"a">>)>>,
      <<Key(Genre, Null), Key(Artist, <<>>), Key(Title, <<"a">>)>> }

NoRet == [urls |-> <<>>, selected |-> <<>>]

TagEntries == {0, 1}

----------------------------------------------------------------------------
(* The state machine.  The host's playlist and base path are fixed for a
   behaviour; a SearchModel is constructed empty. *)

Constructed ==
    /\ items = <<>>
    /\ m_playlist = <<>>
    /\ m_root_items = <<>>
    /\ m_hidden_items = 0
    /\ call = [op |-> "SearchModel"]
    /\ ret = NoRet

Libraries(n) ==
    [playlist : SeqsUpTo(Filenames, n), base_path : BasePaths]

Init ==
    /\ library \in Libraries(MaxEntries)
    /\ Constructed

update ==
    \E rev \in BOOLEAN :
        /\ m_root_items' = build_root_items(items, rev)
        /\ call' = [op |-> "update"]
        /\ ret' = NoRet
        /\ UNCHANGED <<library, items, m_playlist, m_hidden_items>>

destroy_database ==
    /\ m_playlist' = <<>>
    /\ m_root_items' = <<>>
    /\ m_hidden_items' = 0
    /\ items' = <<>>
    /\ call' = [op |-> "destroy_database"]
    /\ ret' = NoRet
    /\ UNCHANGED library

(* create_database (playlist, base_path): destroy_database (), then the loop *)
create_database ==
    /\ items' = PopulateFrom(<<>>, library.playlist, BaseDir(library.base_path), 0)
    /\ m_root_items' = <<>>
    /\ m_hidden_items' = 0
    /\ m_playlist' = library.playlist
    /\ call' = [op |-> "create_database"]
    /\ ret' = NoRet
    /\ UNCHANGED library

do_search ==
    \E terms \in SeqsUpTo(TermSet, MaxTerms), rev \in BOOLEAN :
        LET marked == [i \in 1..Len(items) |->
                          [items[i] EXCEPT !.m_search_visible =
                                               mark_matches(items, terms, i)]]
        IN  /\ m_hidden_items' = 0
            /\ items' = marked
            /\ m_root_items' = build_root_items(marked, rev)
            /\ call' = [op |-> "do_search", terms |-> terms]
            /\ ret' = NoRet
            /\ UNCHANGED <<library, m_playlist>>

(* mimeData is const: it reads the index and leaves it as it is, so what one
   export returns does not depend on an earlier export.  A behaviour records
   one export of an index; the next call is a call that changes the index. *)
mimeData ==
    /\ call.op # "mimeData"
    /\ \E indexes \in SeqsUpTo(0..Len(items), MaxSel), rev \in BOOLEAN :
        LET out == Export(items, m_playlist, indexes, rev)
        IN  /\ call' = [op |-> "mimeData", indexes |-> indexes, rev |-> rev]
            /\ ret' = [urls |-> out.urls, selected |-> out.selected]
            /\ UNCHANGED <<library, items, m_playlist, m_root_items, m_hidden_items>>

(* every add_to_database call with a named key appends one entry to one
   top-level match list: their total length caps the number of calls *)
RECURSIVE TopLevelMatches(_, _)
TopLevelMatches(its, i) ==
    IF i > Len(its) THEN 0
    ELSE (IF its[i].parent = 0 THEN Len(its[i].matches) ELSE 0)
             + TopLevelMatches(its, i + 1)

add_to_database ==
    /\ TopLevelMatches(items, 1) < MaxTagCalls
    /\ \E entry \in TagEntries, keys \in KeyChains :
        /\ items' = AddKeys(items, keys, 1, 0, entry)
        /\ call' = [op |-> "add_to_database", entry |-> entry, keys |-> keys]
        /\ ret' = NoRet
        /\ UNCHANGED <<library, m_playlist, m_root_items, m_hidden_items>>

(* The model as its host drives it: rebuild, search, refresh. *)
Next ==
    \/ update
    \/ destroy_database
    \/ create_database
    \/ do_search

Spec == Init /\ [][Next]_vars

(* The drag export of a populated index. *)
NextExport ==
    \/ create_database
    \/ destroy_database
    \/ mimeData

SpecExport == Init /\ [][NextExport]_vars

(* Both population routines on one index. *)
InitTag ==
    /\ library \in Libraries(MaxTagEntries)
    /\ Constructed

NextTag ==
    \/ add_to_database
    \/ create_database
    \/ destroy_database

SpecTag == InitTag /\ [][NextTag]_vars

----------------------------------------------------------------------------
(* Vocabulary of the properties. *)

Nodes == 1..Len(items)

TopLevel == Children(items, 0)

RECURSIVE Descendants(_, _)
Descendants(its, n) ==
    Children(its, n) \cup UNION {Descendants(its, c) : c \in Children(its, n)}

(* the Keys from the index root down to node n *)
RECURSIVE KeyPath(_, _)
KeyPath(its, n) ==
    IF its[n].parent = 0 THEN <<Key(its[n].field, its[n].name)>>
    ELSE Append(KeyPath(its, its[n].parent), Key(its[n].field, its[n].name))

NodesAt(its, path) == {n \in 1..Len(its) : KeyPath(its, n) = path}

Count(s, x) == Cardinality({i \in 1..Len(s) : s[i] = x})

OwnMatch(n, terms) ==
    \E t \in 1..Len(terms) : strstr(str_tolower_utf8(items[n].name), terms[t])

----------------------------------------------------------------------------
(* C1: after do_search (terms), a node is visible iff terms is empty, or its
   own case-folded name contains one of the terms, or one of its descendants
   is visible. *)
C1_SearchVisibility ==
    call.op = "do_search" =>
        \A n \in Nodes :
            items[n].m_search_visible <=>
                \/ Len(call.terms) = 0
                \/ OwnMatch(n, call.terms)
                \/ \E d \in Descendants(items, n) : items[d].m_search_visible

(* a search with terms that hid one node, kept one for its own name, and kept
   one only for a visible descendant *)
C1_Witness ==
    /\ call.op = "do_search"
    /\ Len(call.terms) > 0
    /\ \E n \in Nodes : ~items[n].m_search_visible
    /\ \E n \in Nodes : items[n].m_search_visible /\ OwnMatch(n, call.terms)
    /\ \E n \in Nodes :
          /\ items[n].m_search_visible
          /\ ~OwnMatch(n, call.terms)
          /\ \E d \in Descendants(items, n) : items[d].m_search_visible

(* C2: after do_search, root_items holds exactly the visible top-level nodes. *)
C2_RootItemsOnlyVisible ==
    call.op = "do_search" =>
        Range(m_root_items) = {n \in TopLevel : items[n].m_search_visible}

(* no two children of `parent` compare equal by name, so that the order in
   which the hash table is iterated plays no part in the order of the rows *)
DistinctNames(parent) ==
    \A a, b \in Children(items, parent) :
        a # b => str_compare(items[a].name, items[b].name) # 0

(* C5: the rows served by index (row, 0, parent), for every parent and for the
   index root, are ordered by category rank first, whatever the names are
   (stated for the parents whose children have names that differ). *)
C5_RowsByCategoryRank ==
    \A rev \in BOOLEAN :
        \A par \in {InvalidIndex} \cup {createIndex(0, p) : p \in Nodes} :
            DistinctNames(item_at_index(par)) =>
                \A i, j \in 0..(rowCount(items, m_root_items, par) - 1) :
                    i < j =>
                        items[index(items, m_root_items, i, 0, par, rev).ptr].field
                          <= items[index(items, m_root_items, j, 0, par, rev).ptr].field

(* C6: once a call has returned, root_items holds exactly the nodes at depth 1
   of the index. *)
C6_RootItemsNeverStale ==
    Range(m_root_items) = TopLevel

(* C7: after create_database, for every entry with path segments s1..sn, only
   the node of sn is a Title holding the entry id; the nodes of s1..s(n-1) are
   Genre nodes with an empty match list. *)
C7_PathPopulation ==
    \A e \in 0..(Len(m_playlist) - 1) :
        m_playlist[e + 1] # Null =>
            LET parts == Parts(m_playlist[e + 1], BaseDir(library.base_path))
                n == Len(parts)
                path(k) == [i \in 1..k |->
                               Key(IF i = n THEN Title ELSE Genre, parts[i])]
            IN  n >= 1 =>
                  /\ Cardinality(NodesAt(items, path(n))) = 1
                  /\ \A x \in Nodes :
                        (Count(items[x].matches, e) > 0) <=> (x \in NodesAt(items, path(n)))
                  /\ \A x \in NodesAt(items, path(n)) :
                        items[x].field = Title /\ Count(items[x].matches, e) = 1
                  /\ \A k \in 1..(n - 1) :
                        /\ NodesAt(items, path(k)) # {}
                        /\ \A x \in NodesAt(items, path(k)) :
                              items[x].field = Genre /\ items[x].matches = <<>>

(* a folder with two Title children, one entry each, and no match of its own *)
C7_Witness ==
    /\ call.op = "create_database"
    /\ \E f \in Nodes :
          /\ items[f].field = Genre
          /\ items[f].matches = <<>>
          /\ \E a, b \in Children(items, f) :
                /\ a # b
                /\ items[a].field = Title /\ items[b].field = Title
                /\ Len(items[a].matches) = 1 /\ Len(items[b].matches) = 1
                /\ items[a].matches # items[b].matches

(* C10: parent (index of C) points to P and carries the row at which index
   serves P among the rows of P's own parent G (root_items for a top-level P)
   (stated for a visible P whose siblings have names that differ). *)
C10_ParentRowRoundTrip ==
    \A rev \in BOOLEAN :
        \A c \in Nodes :
            LET p == items[c].parent
                g == IF p = 0 THEN 0 ELSE items[p].parent
                pi == parent_of(items, m_root_items, createIndex(0, c))
            IN  /\ (p # 0 /\ g # 0 /\ items[p].m_search_visible /\ DistinctNames(g)) =>
                      /\ pi.valid /\ pi.ptr = p
                      /\ index(items, m_root_items, pi.row, 0,
                               createIndex(0, g), rev).ptr = p
                /\ (p # 0 /\ g = 0 /\ p \in Range(m_root_items)) =>
                      /\ pi.valid /\ pi.ptr = p
                      /\ m_root_items[pi.row + 1] = p

----------------------------------------------------------------------------
(* The export, told again without the seen set: every entry id met, in the
   order the walk meets it, repeats included. *)

IsFile(its, n) == its[n].field = Title /\ Len(its[n].matches) > 0

RECURSIVE Concat(_)
Concat(ss) == IF ss = <<>> THEN <<>> ELSE ss[1] \o Concat(Tail(ss))

RECURSIVE Met(_, _, _)
Met(its, n, rev) ==
    IF n = 0 THEN <<>>
    ELSE IF IsFile(its, n) THEN its[n].matches
    ELSE LET kids == sort(its, iterate(its, n, rev))
         IN  Concat([k \in 1..Len(kids) |-> Met(its, kids[k], rev)])

MetAll(its, indexes, rev) ==
    Concat([k \in 1..Len(indexes) |-> Met(its, indexes[k], rev)])

RECURSIVE FirstOccurrences(_)
FirstOccurrences(s) ==
    IF s = <<>> THEN <<>>
    ELSE LET front == FirstOccurrences(SubSeq(s, 1, Len(s) - 1))
             last == s[Len(s)]
         IN  IF last \in Range(front) THEN front ELSE Append(front, last)

NoRepeat(s) == \A i, j \in 1..Len(s) : i # j => s[i] # s[j]

(* C3: the export holds each entry id at most once across the whole selection,
   and select_entry (id, true) is called once per exported id, at the first
   encounter of the id. *)
C3_ExportDedup ==
    call.op = "mimeData" =>
        /\ NoRepeat(ret.selected)
        /\ Len(ret.urls) = Len(ret.selected)
        /\ \A i \in 1..Len(ret.urls) :
              ret.urls[i] = m_playlist[ret.selected[i] + 1]
        /\ ret.selected = FirstOccurrences(MetAll(items, call.indexes, call.rev))

(* an export whose walk met some entry twice: a file selected together with a
   folder above it, or a folder selected together with a folder above it *)
C3_Witness ==
    /\ call.op = "mimeData"
    /\ Len(ret.selected) >= 2
    /\ ~NoRepeat(MetAll(items, call.indexes, call.rev))
    /\ \E k \in 1..Len(call.indexes) :
          call.indexes[k] # 0 /\ ~IsFile(items, call.indexes[k])

(* C4: exporting a folder F together with a file f of F, in either order,
   yields f's entry ids once each, in the order the export of F alone gives. *)
C4_FolderAndFileOrder ==
    (call.op = "mimeData" /\ Len(call.indexes) = 2) =>
        \A F, f \in Nodes :
            ( /\ {call.indexes[1], call.indexes[2]} = {F, f}
              /\ items[f].parent = F
              /\ IsFile(items, f)
              /\ DistinctNames(F) ) =>
                /\ \A e \in Range(items[f].matches) : Count(ret.selected, e) = 1
                /\ ret.selected = Export(items, m_playlist, <<F>>, call.rev).selected

----------------------------------------------------------------------------
(* C8: add_to_database (e, keys) appends e to the match list of every node on
   the chain of the keys that have a name, creating the nodes that are missing,
   and a key without a name creates no node. *)
C8_TagPopulation ==
    [][ call'.op = "add_to_database" =>
          LET e == call'.entry
              HasName(k) == k.name # Null
              chain == SelectSeq(call'.keys, HasName)
              onChain == {SubSeq(chain, 1, k) : k \in 1..Len(chain)}
          IN  /\ \A k \in 1..Len(chain) :
                    LET path == SubSeq(chain, 1, k)
                        old == NodesAt(items, path)
                        new == NodesAt(items', path)
                    IN  /\ Cardinality(new) = 1
                        /\ old \subseteq new
                        /\ \A x \in new :
                              items'[x].matches =
                                  IF x \in old THEN Append(items[x].matches, e)
                                  ELSE <<e>>
              /\ \A x \in 1..Len(items') :
                    KeyPath(items', x) \notin onChain =>
                        x <= Len(items) /\ items'[x] = items[x]
              /\ \A x \in 1..Len(items') : items'[x].name # Null
              /\ Len(items') <= Len(items) + Len(chain)
      ]_vars

(* E1 = (Genre b, Artist x, Title a) and E2 = (Genre b, Artist m, Title b)
   were added: the Genre node holds E1, E2 and each Artist node its own entry *)
C8_Witness ==
    /\ call.op = "add_to_database"
    /\ \E g \in TopLevel :
          /\ items[g].field = Genre
          /\ items[g].matches = <<0, 1>>
          /\ \E x, y \in Children(items, g) :
                /\ items[x].field = Artist /\ items[x].matches = <<0>>
                /\ items[y].field = Artist /\ items[y].matches = <<1>>
                /\ \E t \in Children(items, x) :
                      items[t].field = Title /\ items[t].matches = <<0>>

(* C9: no node, and not the index root, has two children with the same
   (category, name) key, under both population routines. *)
C9_KeyUniqueness ==
    \A a, b \in Nodes :
        (a # b /\ items[a].parent = items[b].parent) =>
            ~KeyEq(Key(items[a].field, items[a].name),
                   Key(items[b].field, items[b].name))

(* create_database met a folder key a second time and reused its node (the
   folder has two children and no match), then a chain was added twice on the
   same index: its nodes hold two entries *)
C9_Witness ==
    /\ call.op = "add_to_database"
    /\ Len(m_playlist) >= 2
    /\ \E f \in Nodes :
          /\ items[f].field = Genre
          /\ items[f].matches = <<>>
          /\ Cardinality(Children(items, f)) >= 2
    /\ \E n \in Nodes : items[n].field = Title /\ Len(items[n].matches) = 2
    /\ \E n \in Nodes : items[n].field = Artist /\ Len(items[n].matches) = 2

====
